---- MODULE Spec2Model ----
(***************************************************************************)
(* Drawdown analysis app (src/app.py): the Streamlit script with its       *)
(* session state, and analyze_stock, which derives the running all-time    *)
(* high, the drawdown and the in-drawdown flag of a downloaded price       *)
(* series, segments it into drawdown periods and tabulates them.           *)
(*                                                                         *)
(* Numbers.  Prices are non-negative integers; a drawdown is the exact     *)
(* fraction <<close - ath, ath>>, compared by cross-multiplication.  For   *)
(* the modelled prices every quotient and the threshold -0.25 are far      *)
(* apart or exactly equal, so the float comparison of the code and the     *)
(* exact comparison agree.  0/0 is NaN, as in pandas.                      *)
(***************************************************************************)
EXTENDS Integers, Sequences, FiniteSets

VARIABLES
    \* st.session_state and the manual_input widget
    selected_ticker, suggestions, analyze_flag, manual_input, manual_value,
    \* the running script
    pc, event, calls, returned, final_ticker, output,
    \* locals of analyze_stock
    stock_data, df, it, in_drawdown, start_date, drawdown_periods, stats_data

session == <<selected_ticker, suggestions, analyze_flag, manual_input, manual_value>>
script  == <<pc, event, calls, returned, final_ticker, output>>
locals  == <<stock_data, df, it, in_drawdown, start_date, drawdown_periods, stats_data>>
vars    == <<session, script, locals>>

----------------------------------------------------------------------------
\* Bounds of the model

\* longest downloaded series explored when analyze_stock is checked alone
MaxLen == 5
\* longest downloaded series explored inside the session protocol
MaxSessionLen == 2

\* closing prices a download may hold; 0 is a non-positive (bad) quote,
\* 75 is exactly 75% of 100 and 60 exactly 75% of 80
Prices == {0, 60, 75, 80, 100}

----------------------------------------------------------------------------
\* Text: a string is a sequence of characters

EmptyStr == << >>
NIFTY50  == <<"N", "I", "F", "T", "Y", "5", "0">>
NSEI     == <<"^", "N", "S", "E", "I">>
TCS      == <<"T", "C", "S">>
TCS_NS   == <<"T", "C", "S", ".", "N", "S">>
AAPL     == <<"A", "A", "P", "L">>
NS       == <<".", "N", "S">>
BO       == <<".", "B", "O">>

Contains(s, c) == \E k \in 1..Len(s) : s[k] = c

EndsWith(s, suffix) ==
    /\ Len(s) >= Len(suffix)
    /\ SubSeq(s, Len(s) - Len(suffix) + 1, Len(s)) = suffix

StartsWith(s, prefix) ==
    /\ Len(s) >= Len(prefix)
    /\ SubSeq(s, 1, Len(prefix)) = prefix

\* index_mapping, restricted to the key the model types
index_mapping == [k \in {NIFTY50} |-> NSEI]

MappingGet(key, default) ==
    IF key \in DOMAIN index_mapping THEN index_mapping[key] ELSE default

----------------------------------------------------------------------------
\* Floating-point values as exact fractions <<numerator, denominator>>,
\* denominator >= 0; 0/0 is NaN

NaN == <<0, 0>>
IsNaN(x) == x[2] = 0
Divide(n, d) == <<n, d>>

\* x <= y; any comparison with NaN is false
Leq(x, y) == ~IsNaN(x) /\ ~IsNaN(y) /\ x[1] * y[2] <= y[1] * x[2]
Lt(x, y)  == ~IsNaN(x) /\ ~IsNaN(y) /\ x[1] * y[2] <  y[1] * x[2]
\* x == y as numbers
NumEq(x, y) == ~IsNaN(x) /\ ~IsNaN(y) /\ x[1] * y[2] = y[1] * x[2]

Max2(a, b) == IF a >= b THEN a ELSE b

----------------------------------------------------------------------------
\* The download

\* yfinance's index: consecutive trading days starting on a Thursday
\* (days 4, 5, 8, 9, 10, 11, 12, 15, ...), strictly increasing
TradingDay(i) == i + 3 + 2 * ((i + 2) \div 5)

Frame(closes) ==
    [index |-> [i \in 1..Len(closes) |-> TradingDay(i)], Close |-> closes]

SeriesUpTo(n) == UNION {[1..k -> Prices] : k \in 0..n}

AllSeries     == {Frame(c) : c \in SeriesUpTo(MaxLen)}
SessionSeries == {Frame(c) : c \in SeriesUpTo(MaxSessionLen)}

IsEmptyFrame(data) == Len(data.Close) = 0

----------------------------------------------------------------------------
\* Derived columns (lines 53-60)

\* a mutant that keeps the larger of the last two prices only
cummaxPairwise(s) ==
    [i \in 1..Len(s) |-> IF i = 1 THEN s[i] ELSE Max2(s[i - 1], s[i])]

\* Series.cummax()
RECURSIVE cummax(_)
cummax(s) ==
    IF Len(s) = 0 THEN << >>
    ELSE LET prev == cummax(SubSeq(s, 1, Len(s) - 1))
             x    == s[Len(s)]
         IN  Append(prev, IF Len(prev) = 0 THEN x ELSE Max2(prev[Len(prev)], x))

DrawdownOf(close, ath) == Divide(close - ath, ath)

\* a mutant with the sign of the threshold lost
thresholdPositive == <<25, 100>>

\* threshold = -0.25
threshold == <<-25, 100>>

\* a mutant that leaves the boundary out
InDrawdownStrict(dd) == Lt(dd, threshold)

\* df['Drawdown'] <= threshold
InDrawdownFlag(dd) == Leq(dd, threshold)

NoDF == [index |-> << >>, Close |-> << >>, ATH |-> << >>,
         Drawdown |-> << >>, In_Drawdown |-> << >>]

Derive(data) ==
    LET n   == Len(data.Close)
        ath == cummax(data.Close)
        dd  == [i \in 1..n |-> DrawdownOf(data.Close[i], ath[i])]
    IN  [index |-> data.index, Close |-> data.Close, ATH |-> ath,
         Drawdown |-> dd, In_Drawdown |-> [i \in 1..n |-> InDrawdownFlag(dd[i])]]

----------------------------------------------------------------------------
\* Period extraction (lines 63-80)

None == -1

\* the loop body of a mutant that restarts the run at every in-drawdown point
LoopBodyRestart(s, value, date) ==
    IF value
    THEN [in_drawdown |-> TRUE, start_date |-> date,
          drawdown_periods |-> s.drawdown_periods]
    ELSE IF ~value /\ s.in_drawdown
    THEN [in_drawdown |-> FALSE, start_date |-> None,
          drawdown_periods |-> Append(s.drawdown_periods, <<s.start_date, date>>)]
    ELSE s

\* the loop body of a mutant that closes a run with its own start date
LoopBodyCloseAtStart(s, value, date) ==
    IF value /\ ~s.in_drawdown
    THEN [in_drawdown |-> TRUE, start_date |-> date,
          drawdown_periods |-> s.drawdown_periods]
    ELSE IF ~value /\ s.in_drawdown
    THEN [in_drawdown |-> FALSE, start_date |-> None,
          drawdown_periods |-> Append(s.drawdown_periods, <<s.start_date, s.start_date>>)]
    ELSE s

\* one iteration of `for date, value in df['In_Drawdown'].items()`
LoopBody(s, value, date) ==
    IF value /\ ~s.in_drawdown
    THEN [in_drawdown |-> TRUE, start_date |-> date,
          drawdown_periods |-> s.drawdown_periods]
    ELSE IF ~value /\ s.in_drawdown
    THEN [in_drawdown |-> FALSE, start_date |-> None,
          drawdown_periods |-> Append(s.drawdown_periods, <<s.start_date, date>>)]
    ELSE s

\* a mutant that drops the run still open at the end of the series
TrailingRunDropped(periods, open, start, last) == periods

\* `if in_drawdown: drawdown_periods.append((start_date, df.index[-1]))`
TrailingRun(periods, open, start, last) ==
    IF open THEN Append(periods, <<start, last>>) ELSE periods

----------------------------------------------------------------------------
\* Statistics (lines 180-204)

\* positions selected by (df.index >= start) & (df.index <= end)
Mask(frame, start, end) ==
    {i \in 1..Len(frame.index) : frame.index[i] >= start /\ frame.index[i] <= end}

RECURSIVE Take(_, _, _)
Take(s, keep, i) ==
    IF i > Len(s) THEN << >>
    ELSE (IF i \in keep THEN <<s[i]>> ELSE << >>) \o Take(s, keep, i + 1)

\* Series.min(): the smallest value, NaN skipped; NaN when nothing is left
RECURSIVE SeriesMin(_)
SeriesMin(s) ==
    IF Len(s) = 0 THEN NaN
    ELSE LET h == Head(s)
             rest == SeriesMin(Tail(s))
         IN  IF IsNaN(h) THEN rest
             ELSE IF IsNaN(rest) THEN h
             ELSE IF Leq(h, rest) THEN h ELSE rest

\* the largest value, NaN skipped (used by a mutant of the statistics)
RECURSIVE SeriesMax(_)
SeriesMax(s) ==
    IF Len(s) = 0 THEN NaN
    ELSE LET h == Head(s)
             rest == SeriesMax(Tail(s))
         IN  IF IsNaN(h) THEN rest
             ELSE IF IsNaN(rest) THEN h
             ELSE IF Leq(rest, h) THEN h ELSE rest

\* a mutant that takes the largest drawdown value of the period
PeriodMaxDrawdownByMax(frame, start, end) ==
    LET m == SeriesMax(Take(frame.Drawdown, Mask(frame, start, end), 1))
    IN  <<m[1] * 100, m[2]>>

\* period_df['Drawdown'].min() * 100
PeriodMaxDrawdown(frame, start, end) ==
    LET m == SeriesMin(Take(frame.Drawdown, Mask(frame, start, end), 1))
    IN  <<m[1] * 100, m[2]>>

\* f"{x:.2f}%": x rounded to hundredths (ties to even), as a count of
\* hundredths of a percent
Format2f(x) ==
    IF IsNaN(x) THEN <<"nan%">>
    ELSE LET a == (IF x[1] < 0 THEN -x[1] ELSE x[1]) * 100
             q == a \div x[2]
             r == a % x[2]
             h == IF 2 * r < x[2] THEN q
                  ELSE IF 2 * r > x[2] THEN q + 1
                  ELSE IF q % 2 = 0 THEN q ELSE q + 1
         IN  <<"%", IF x[1] < 0 THEN -h ELSE h>>

\* date.strftime('%Y-%m-%d')
strftime(date) == <<"date", date>>
Ongoing == <<"Ongoing">>

StatsRow(frame, start, end) ==
    [Start_Date   |-> strftime(start),
     End_Date     |-> IF end # frame.index[Len(frame.index)]
                      THEN strftime(end) ELSE Ongoing,
     Max_Drawdown |-> Format2f(PeriodMaxDrawdown(frame, start, end)),
     Duration     |-> end - start]

----------------------------------------------------------------------------
\* analyze_stock, step by step

NoLocals ==
    /\ stock_data' = Frame(<< >>)
    /\ df' = NoDF
    /\ it' = 0
    /\ in_drawdown' = FALSE
    /\ start_date' = None
    /\ drawdown_periods' = << >>
    /\ stats_data' = << >>

\* a mutant that never takes the early return
EmptyCheckMissing(data) == FALSE

\* `if stock_data.empty`
EmptyCheck(data) == IsEmptyFrame(data)

\* lines 41-50: the download, and the early return on no data
Download(frames) ==
    /\ pc = "download"
    /\ \E data \in frames :
        /\ stock_data' = data
        /\ IF EmptyCheck(data)
           THEN /\ output' = output \o <<"write", "error">>
                /\ pc' = "returned"
                /\ returned' = TRUE
           ELSE /\ output' = output \o <<"write", "success">>
                /\ pc' = "process"
                /\ UNCHANGED returned
    /\ UNCHANGED <<session, event, calls, final_ticker>>
    /\ UNCHANGED <<df, it, in_drawdown, start_date, drawdown_periods, stats_data>>

\* lines 53-65: the derived columns and the loop's initial state
Process ==
    /\ pc = "process"
    /\ df' = Derive(stock_data)
    /\ drawdown_periods' = << >>
    /\ in_drawdown' = FALSE
    /\ start_date' = None
    /\ it' = 1
    /\ pc' = "loop"
    /\ UNCHANGED <<session, event, calls, returned, final_ticker, output>>
    /\ UNCHANGED <<stock_data, stats_data>>

\* lines 67-76: one iteration of the loop over df['In_Drawdown']
LoopStep ==
    /\ pc = "loop"
    /\ it <= Len(df.index)
    /\ LET s == LoopBody([in_drawdown |-> in_drawdown, start_date |-> start_date,
                          drawdown_periods |-> drawdown_periods],
                         df.In_Drawdown[it], df.index[it])
       IN  /\ in_drawdown' = s.in_drawdown
           /\ start_date' = s.start_date
           /\ drawdown_periods' = s.drawdown_periods
    /\ it' = it + 1
    /\ UNCHANGED <<session, script>>
    /\ UNCHANGED <<stock_data, df, stats_data>>

\* lines 78-177: the run still open after the last point, then the two charts
EndOfLoop ==
    /\ pc = "loop"
    /\ it > Len(df.index)
    /\ drawdown_periods' =
         TrailingRun(drawdown_periods, in_drawdown, start_date,
                     IF Len(df.index) > 0 THEN df.index[Len(df.index)] ELSE None)
    /\ output' = output \o <<"pyplot", "plotly_chart">>
    /\ pc' = "stats"
    /\ UNCHANGED <<session, event, calls, returned, final_ticker>>
    /\ UNCHANGED <<stock_data, df, it, in_drawdown, start_date, stats_data>>

\* lines 180-204: the statistics table, then the return
Statistics ==
    /\ pc = "stats"
    /\ IF Len(drawdown_periods) > 0
       THEN /\ stats_data' =
                 [k \in 1..Len(drawdown_periods) |->
                     StatsRow(df, drawdown_periods[k][1], drawdown_periods[k][2])]
            /\ output' = output \o <<"subheader", "table">>
       ELSE UNCHANGED <<stats_data, output>>
    /\ pc' = "returned"
    /\ returned' = TRUE
    /\ UNCHANGED <<session, event, calls, final_ticker>>
    /\ UNCHANGED <<stock_data, df, it, in_drawdown, start_date, drawdown_periods>>

\* line 328: the flag is reset once analyze_stock has returned; the script ends
ResetFlag ==
    /\ pc = "returned"
    /\ analyze_flag' = FALSE
    /\ pc' = "idle"
    /\ NoLocals
    /\ UNCHANGED <<selected_ticker, suggestions, manual_input, manual_value>>
    /\ UNCHANGED <<event, calls, returned, final_ticker, output>>

----------------------------------------------------------------------------
\* The Streamlit script (lines 229-328).  A rerun is started by one user
\* event; the script then runs from the top.  selected_name, search_query and
\* last_search_time are never read by the code that decides the analysis and
\* are left out: the query's length and the debounce are inputs of
\* on_search_change.

\* a quote is <<symbol, shortname>>
Quote(symbol, name) == <<symbol, name>>

\* answers of the search service
QuoteLists ==
    { << >>,
      <<Quote(NSEI, "NIFTY 50")>>,
      <<Quote(NSEI, "NIFTY 50"), Quote(AAPL, "Apple"), Quote(TCS_NS, "TCS")>> }

\* texts typed into the manual ticker box
ManualEntries == {EmptyStr, TCS, NIFTY50}

MinQueryLen == 2
SuggestionCap == 8

Min2(a, b) == IF a <= b THEN a ELSE b

\* get_ticker_suggestions: Indian stocks (.NS, .BO) and indices (^) only
IsIndian(q) ==
    EndsWith(q[1], NS) \/ EndsWith(q[1], BO) \/ StartsWith(q[1], <<"^">>)
get_ticker_suggestions(quotes) == SelectSeq(quotes, IsIndian)

\* on_search_change: the new value of st.session_state.suggestions
on_search_change(current, queryLen, debounced, quotes) ==
    IF debounced /\ queryLen >= MinQueryLen THEN get_ticker_suggestions(quotes)
    ELSE IF queryLen < MinQueryLen THEN << >>
    ELSE current

\* select_stock: the session fields it assigns
select_stock(ticker, name) ==
    [selected_ticker |-> ticker, suggestions |-> << >>, analyze_flag |-> TRUE]

\* What st.text_input(value=..., key="manual_input") returns.  When the value
\* argument is the one of the previous run the box keeps its text.  When it
\* differs, Streamlit either keeps the text stored under the key or builds a
\* new widget holding the new default, depending on its version.
ManualWidget(text, lastValue, value) ==
    IF value = lastValue THEN {text} ELSE {text, value}

\* lines 311-319
FinalTicker(selected, manual) ==
    LET base == IF selected # EmptyStr THEN MappingGet(selected, selected)
                ELSE IF manual # EmptyStr THEN MappingGet(manual, manual)
                ELSE EmptyStr
    IN  IF /\ base # EmptyStr
           /\ ~(Contains(base, ".") \/ Contains(base, "^"))
           /\ ~EndsWith(base, NS)
        THEN base \o NS
        ELSE base

\* a mutant that analyses whenever a ticker is resolved
ShouldAnalyzeAlways(flag, final) == final # EmptyStr

\* `if st.session_state.analyze_flag and final_ticker`
ShouldAnalyze(flag, final) == flag /\ final # EmptyStr

\* lines 299-319, run on the session as left by the callbacks and buttons of
\* this rerun: the manual box, the override of the selection, the ticker
RunScript(selected, flag, shown, text) ==
    \E manual_ticker \in ManualWidget(text, manual_value, selected) :
        LET changed == manual_ticker # EmptyStr /\ manual_ticker # selected
            chosen  == IF changed THEN manual_ticker ELSE selected
        IN  /\ selected_ticker' = chosen
            /\ analyze_flag' = (flag \/ changed)
            /\ suggestions' = shown
            /\ manual_input' = manual_ticker
            /\ manual_value' = selected
            /\ final_ticker' = FinalTicker(chosen, manual_ticker)
            /\ pc' = "check"
            /\ calls' = 0
            /\ returned' = FALSE
            /\ output' = << >>
            /\ UNCHANGED locals

\* the search box changed: on_search_change, then the script
SearchChanged ==
    /\ pc = "idle"
    /\ event' = "search"
    /\ \E queryLen \in {MinQueryLen - 1, MinQueryLen}, debounced \in BOOLEAN,
          quotes \in QuoteLists :
        RunScript(selected_ticker, analyze_flag,
                  on_search_change(suggestions, queryLen, debounced, quotes),
                  manual_input)

\* one of the (at most 8) suggestion buttons was clicked: select_stock
ClickSuggestion ==
    /\ pc = "idle"
    /\ event' = "click"
    /\ \E i \in 1..Min2(Len(suggestions), SuggestionCap) :
        LET s == select_stock(suggestions[i][1], suggestions[i][2])
        IN  RunScript(s.selected_ticker, s.analyze_flag, s.suggestions, manual_input)

\* the manual ticker box was edited
EditManual ==
    /\ pc = "idle"
    /\ event' = "manual"
    /\ \E text \in ManualEntries \ {manual_input} :
        RunScript(selected_ticker, analyze_flag, suggestions, text)

\* lines 324-327: analyse or end the script
Check ==
    /\ pc = "check"
    /\ IF ShouldAnalyze(analyze_flag, final_ticker)
       THEN pc' = "download" /\ calls' = calls + 1
       ELSE pc' = "idle" /\ UNCHANGED calls
    /\ UNCHANGED <<session, event, returned, final_ticker, output, locals>>

\* the script run is stopped inside analyze_stock, where the download and the
\* charts take their time (a new event arrives, or a library call raises):
\* line 328 is not reached and the flag stays as it was
Interrupt ==
    /\ pc \in {"download", "process", "loop", "stats"}
    /\ pc' = "idle"
    /\ NoLocals
    /\ UNCHANGED <<session, event, calls, returned, final_ticker, output>>

\* the session after the first run of the script
Init ==
    /\ selected_ticker = EmptyStr
    /\ suggestions = << >>
    /\ analyze_flag = FALSE
    /\ manual_input = EmptyStr
    /\ manual_value = EmptyStr
    /\ pc = "idle"
    /\ event = "load"
    /\ calls = 0
    /\ returned = FALSE
    /\ final_ticker = EmptyStr
    /\ output = << >>
    /\ stock_data = Frame(<< >>)
    /\ df = NoDF
    /\ it = 0
    /\ in_drawdown = FALSE
    /\ start_date = None
    /\ drawdown_periods = << >>
    /\ stats_data = << >>

Next ==
    \/ SearchChanged
    \/ ClickSuggestion
    \/ EditManual
    \/ Check
    \/ Download(SessionSeries)
    \/ Process
    \/ LoopStep
    \/ EndOfLoop
    \/ Statistics
    \/ ResetFlag
    \/ Interrupt

Spec == Init /\ [][Next]_vars

----------------------------------------------------------------------------
\* analyze_stock alone: entered from the script's first manual entry

InitAnalyze ==
    /\ selected_ticker = NIFTY50
    /\ suggestions = << >>
    /\ analyze_flag = TRUE
    /\ manual_input = NIFTY50
    /\ manual_value = EmptyStr
    /\ pc = "download"
    /\ event = "manual"
    /\ calls = 1
    /\ returned = FALSE
    /\ final_ticker = NSEI
    /\ output = << >>
    /\ stock_data = Frame(<< >>)
    /\ df = NoDF
    /\ it = 0
    /\ in_drawdown = FALSE
    /\ start_date = None
    /\ drawdown_periods = << >>
    /\ stats_data = << >>

NextAnalyze ==
    \/ Download(AllSeries)
    \/ Process
    \/ LoopStep
    \/ EndOfLoop
    \/ Statistics
    \/ ResetFlag

SpecAnalyze == InitAnalyze /\ [][NextAnalyze]_vars

----------------------------------------------------------------------------
\* Vocabulary of the properties of analyze_stock

N == Len(df.index)
Flag(i) == df.In_Drawdown[i]
Derived == pc \in {"loop", "stats", "returned"} /\ ~IsEmptyFrame(stock_data)
Extracted == pc \in {"stats", "returned"} /\ ~IsEmptyFrame(stock_data)
Analysed == pc = "returned" /\ ~IsEmptyFrame(stock_data)
\* the series is a valid one: every price is positive
PositivePrices == \A i \in 1..N : df.Close[i] > 0

\* the largest price among the first i points
PrefixMax(i) ==
    CHOOSE m \in {df.Close[j] : j \in 1..i} : \A j \in 1..i : df.Close[j] <= m

\* first points of the maximal runs of in-drawdown points
RunStarts == {i \in 1..N : Flag(i) /\ (i = 1 \/ ~Flag(i - 1))}
\* the run start with k - 1 run starts before it
RunStart(k) == CHOOSE i \in RunStarts : Cardinality({j \in RunStarts : j < i}) = k - 1
\* the points after position i that are not in drawdown
Recoveries(i) == {j \in (i + 1)..N : ~Flag(j)}
FirstRecovery(i) == CHOOSE j \in Recoveries(i) : \A h \in Recoveries(i) : j <= h
\* the first point of the run the last point belongs to
TrailingStart == CHOOSE i \in RunStarts : \A j \in i..N : Flag(j)
\* a point that closes a run: the first point not in drawdown after it
ClosingPoint(i) == i > 1 /\ ~Flag(i) /\ Flag(i - 1)

Covering(i) ==
    {k \in 1..Len(drawdown_periods) :
        drawdown_periods[k][1] <= df.index[i] /\ df.index[i] <= drawdown_periods[k][2]}
Marked(i) == Covering(i) # {}

\* C1: every reported period shows "Ongoing" as its end date if and only if
\* its run of in-drawdown points extends to the last point of the series; a
\* run closed by a recovery at the last point is shown with its end date.
C1_OngoingIffRunOpen ==
    (Analysed /\ PositivePrices) =>
        \A k \in 1..Len(stats_data) :
            (stats_data[k].End_Date = Ongoing)
              <=> (\A j \in 1..N :
                      df.index[j] >= drawdown_periods[k][1] => Flag(j))

\* C2: for every closed period the reported max drawdown is the minimum
\* drawdown over the points from its start up to the point before its end;
\* the closing point, though selected by the mask, does not change it.
C2_MaxDrawdownOverRun ==
    Analysed =>
        \A k \in 1..Len(drawdown_periods) :
            LET start == drawdown_periods[k][1]
                end   == drawdown_periods[k][2]
                run   == {i \in 1..N : start <= df.index[i] /\ df.index[i] < end}
                pct   == {<<df.Drawdown[i][1] * 100, df.Drawdown[i][2]>> : i \in run}
            IN  (\E j \in 1..N : df.index[j] = end /\ ~Flag(j)) =>
                    \E x \in pct :
                        /\ \A y \in pct : Leq(x, y)
                        /\ NumEq(PeriodMaxDrawdown(df, start, end), x)
                        /\ stats_data[k].Max_Drawdown = Format2f(x)

\* a closed period of two in-drawdown points whose closing point is itself
\* below the high (its drawdown is negative, and selected by the mask)
C2_Witness ==
    /\ Analysed
    /\ PositivePrices
    /\ \E k \in 1..Len(drawdown_periods) : \E j \in 3..N :
        /\ df.index[j] = drawdown_periods[k][2]
        /\ ~Flag(j) /\ Flag(j - 1) /\ Flag(j - 2)
        /\ df.Close[j] < df.ATH[j]
        /\ Cardinality(Mask(df, drawdown_periods[k][1], drawdown_periods[k][2])) = 3

\* C3 as stated: the points lying in some period's [start, end] are exactly
\* the in-drawdown points, and no point lies in two periods.
C3_RoundTripExact ==
    (Analysed /\ PositivePrices) =>
        \A i \in 1..N :
            /\ Marked(i) <=> Flag(i)
            /\ Cardinality(Covering(i)) <= 1

\* C3 amended: the points lying in some period's [start, end] are exactly
\* the in-drawdown points together with the closing point of each closed
\* run, and no point lies in two periods.
C3_RoundTripWithClosingPoints ==
    Analysed =>
        \A i \in 1..N :
            /\ Marked(i) <=> (Flag(i) \/ ClosingPoint(i))
            /\ Cardinality(Covering(i)) <= 1

\* two periods: one closed by a recovery, one still open at the end
C3_Witness ==
    /\ Analysed
    /\ PositivePrices
    /\ Len(drawdown_periods) = 2
    /\ Flag(N)
    /\ \E i \in 1..N : ClosingPoint(i) /\ Marked(i)

\* C4: when the last point is in drawdown, the period list ends with the one
\* period that starts at the first point of the trailing run and ends at the
\* last timestamp, and that period (alone) is shown as ongoing.
C4_TrailingRunReported ==
    (Extracted /\ Flag(N)) =>
        LET last == Len(drawdown_periods)
            want == <<df.index[TrailingStart], df.index[N]>>
        IN  /\ last >= 1
            /\ drawdown_periods[last] = want
            /\ Cardinality({k \in 1..last : drawdown_periods[k][1] = want[1]}) = 1
            /\ pc = "returned" =>
                  /\ Len(stats_data) = last
                  /\ stats_data[last].End_Date = Ongoing
                  /\ \A k \in 1..(last - 1) : stats_data[k].End_Date # Ongoing

\* a closed period followed by a trailing run of two points
C4_Witness ==
    /\ Analysed
    /\ PositivePrices
    /\ N >= 2 /\ Flag(N) /\ Flag(N - 1)
    /\ Len(drawdown_periods) = 2

\* C5: the periods are the maximal runs of in-drawdown points, one per run,
\* in order: as many periods as runs, each starting at the first point of its
\* run, each closed one ending at the first point after its run, each
\* starting strictly after the previous one ended.
C5_PeriodsAreMaximalRuns ==
    Extracted =>
        /\ Len(drawdown_periods) = Cardinality(RunStarts)
        /\ \A k \in 1..Len(drawdown_periods) :
            LET i == RunStart(k)
            IN  /\ drawdown_periods[k][1] = df.index[i]
                /\ drawdown_periods[k][2] =
                      IF Recoveries(i) # {} THEN df.index[FirstRecovery(i)]
                      ELSE df.index[N]
                /\ k > 1 => drawdown_periods[k][1] > drawdown_periods[k - 1][2]

\* two periods, the first a run of at least two points
C5_Witness ==
    /\ Analysed
    /\ PositivePrices
    /\ Len(drawdown_periods) = 2
    /\ \E i \in 2..(N - 1) : Flag(i) /\ Flag(i + 1)

\* C6: ath[i] is the largest price among the first i points, so ath never
\* decreases and is never below the price.
C6_AthIsRunningMax ==
    Derived =>
        /\ Len(df.ATH) = N
        /\ \A i \in 1..N :
            /\ df.ATH[i] = PrefixMax(i)
            /\ df.ATH[i] >= df.Close[i]
            /\ i > 1 => df.ATH[i] >= df.ATH[i - 1]

\* a point two steps after the high with both later prices below it
C6_Witness ==
    /\ Derived
    /\ PositivePrices
    /\ \E i \in 3..N :
        df.Close[i] < df.ATH[i - 2] /\ df.Close[i - 1] < df.ATH[i - 2]
          /\ df.Close[i - 1] < df.Close[i]

\* C7: a point is in drawdown exactly when its price is at most 75% of the
\* running high (the boundary included), and a lone point exactly at 75% of
\* the high opens a period.
C7_BoundaryIncluded ==
    Derived =>
        /\ \A i \in 1..N :
            Flag(i) <=> (PrefixMax(i) > 0 /\ 4 * df.Close[i] <= 3 * PrefixMax(i))
        /\ Extracted =>
            \A i \in 1..N :
                (/\ PrefixMax(i) > 0
                 /\ 4 * df.Close[i] = 3 * PrefixMax(i)
                 /\ i > 1 => ~Flag(i - 1))
                => \E k \in 1..Len(drawdown_periods) :
                      drawdown_periods[k][1] = df.index[i]

\* a lone point at exactly 75% of the high, recovered right after
C7_Witness ==
    /\ Analysed
    /\ PositivePrices
    /\ \E i \in 2..(N - 1) :
        /\ 4 * df.Close[i] = 3 * df.ATH[i]
        /\ df.ATH[i] > 0
        /\ ~Flag(i - 1) /\ ~Flag(i + 1)
        /\ \E k \in 1..Len(drawdown_periods) :
              drawdown_periods[k] = <<df.index[i], df.index[i + 1]>>

\* the inputs section 3 of the specification calls invalid
InvalidInput(data) ==
    \/ IsEmptyFrame(data)
    \/ \E i \in 1..Len(data.Close) : data.Close[i] <= 0
    \/ \E i \in 2..Len(data.index) : data.index[i] <= data.index[i - 1]

Rejected ==
    /\ pc = "returned"
    /\ output = <<"write", "error">>
    /\ df = NoDF /\ drawdown_periods = << >> /\ stats_data = << >>

C10_SessionProtocol ==
    /\ [](analyze_flag => selected_ticker # EmptyStr)
    /\ []((pc = "check" /\ analyze_flag) => final_ticker # EmptyStr)
    /\ [][(pc = "check" /\ analyze_flag) => pc' = "download"]_vars
    /\ [](calls <= 1)
    /\ [][(calls' # calls /\ calls' # 0) => (analyze_flag /\ pc = "check")]_vars
    /\ [](pc \in {"download", "process", "loop", "stats", "returned"} => calls = 1)
    /\ []((pc = "idle" /\ returned) => ~analyze_flag)
    /\ [][(pc = "idle" /\ ~analyze_flag /\ event' = "search") => ~analyze_flag']_vars

\* a rerun started by a suggestion click analysed once, returned with a
\* table of results shown, and left the flag reset
C10_Witness ==
    /\ pc = "idle"
    /\ event = "click"
    /\ calls = 1
    /\ returned
    /\ ~analyze_flag
    /\ selected_ticker = NSEI
    /\ output = <<"write", "success", "pyplot", "plotly_chart", "subheader", "table">>

====
